---- MODULE Spec2Model ----
(***************************************************************************)
(* A model of mlpack's BinarySpaceTree (binary_space_tree_impl.hpp) and of *)
(* the MPI-based DistributedBinaryTraversal                                *)
(* (distributed_binary_traversal_impl.hpp).                                *)
(*                                                                         *)
(* Objects live in one heap: `nodes` holds every tree node ever allocated  *)
(* (a pointer is an index into it, NULL is 0) and `buffers` holds every    *)
(* dataset matrix (a MatType* is an index into it).  Points are            *)
(* one-dimensional, so a bound is an interval [lo, hi].  A double is kept  *)
(* in units of one half, so that centroids ((lo + hi) / 2) and half        *)
(* diameters are exact integers: the double 1.0 is the integer 2.          *)
(***************************************************************************)
EXTENDS Integers, Sequences, FiniteSets, TLC

\* Bounds of the model.
MaxN == 4          \* largest dataset handed to the oracle split strategy
MaxLeaf == 2       \* largest maxLeafSize
MaxDepthArg == 3   \* largest depth budget handed to Serialize
MaxW == 5          \* largest number of workers
MaxPts == 3        \* largest query or reference set of a distributed run

\* The null pointer.
NULL == 0

\* Results that are not a node: a failed Log::Assert, and the
\* std::invalid_argument thrown by DescendantNode.
AssertFailed == -1
InvalidArgument == -2

------------------------------------------------------------------------------
\* Small helpers.

SetMin(S) == CHOOSE x \in S : \A y \in S : x <= y
SetMax(S) == CHOOSE x \in S : \A y \in S : x >= y
Abs(x) == IF x < 0 THEN -x ELSE x

\* An integer as a double (in halves).
ToDouble(n) == 2 * n

RECURSIVE SumSeq(_)
SumSeq(s) == IF s = <<>> THEN 0 ELSE Head(s) + SumSeq(Tail(s))

\* The columns [begin, begin + count) of a matrix (C++ indices are 0-based).
Cols(data, begin, count) == [i \in 1..count |-> data[begin + i]]

------------------------------------------------------------------------------
\* The capabilities the tree consumes: Bound, Statistic, SplitType.

\* bound |= dataset->cols(begin, begin + count - 1), for a fresh bound.
BoundOf(data, begin, count) ==
  LET vals == { data[begin + i] : i \in 1..count }
  IN  [lo |-> SetMin(vals), hi |-> SetMax(vals)]

\* bound.Diameter(), in halves.
Diameter(b) == ToDouble(b.hi - b.lo)

\* Centroid(), in halves.
Centroid(b) == b.lo + b.hi

\* bound.Metric().Evaluate(a, b) in one dimension.
MetricEvaluate(a, b) == Abs(a - b)

\* StatisticType(node): an aggregate of the node's points and shape.
Statistic(ns, bufs, id) ==
  [sum |-> SumSeq(Cols(bufs[ns[id].dataset], ns[id].begin, ns[id].count)),
   leaf |-> ns[id].left = NULL]

\* A decision of splitter.SplitNode(bound, data, begin, count, splitCol[,
\* oldFromNew]): either no split, or a split column strictly inside the range
\* together with the reordering of the range: column i of the range receives
\* the old column src[i].
NoSplit == [split |-> FALSE, splitCol |-> 0, src |-> <<>>]

Swap(begin, count, a, b) ==
  [i \in begin..(begin + count - 1) |-> IF i = a THEN b ELSE IF i = b THEN a ELSE i]

\* The oracle strategy: any split column, reached by the identity or by one
\* exchange of a column left of the split column with one right of it (the
\* step of an in-place partition).
OracleChoices(begin, count) ==
  {NoSplit} \cup
  { [split |-> TRUE, splitCol |-> c, src |-> Swap(begin, count, begin, begin)] :
      c \in (begin + 1)..(begin + count - 1) } \cup
  { [split |-> TRUE, splitCol |-> p[1], src |-> Swap(begin, count, p[2], p[3])] :
      p \in { q \in ((begin + 1)..(begin + count - 1)) \X (begin..(begin + count - 1))
                       \X (begin..(begin + count - 1)) : q[2] < q[1] /\ q[1] <= q[3] } }

\* The midpoint strategy: points below the middle of the bound go left, in
\* their old order; it reports failure when the bound has no width.
RECURSIVE SelectIdx(_, _, _, _)
SelectIdx(data, idxs, mid2, below) ==
  IF idxs = <<>> THEN <<>>
  ELSE LET i == Head(idxs)
           rest == SelectIdx(data, Tail(idxs), mid2, below)
       IN  IF (2 * data[i + 1] < mid2) = below THEN <<i>> \o rest ELSE rest

MidpointChoices(data, begin, count) ==
  LET b == BoundOf(data, begin, count)
      idxs == [i \in 1..count |-> begin + i - 1]
      lows == SelectIdx(data, idxs, b.lo + b.hi, TRUE)
      highs == SelectIdx(data, idxs, b.lo + b.hi, FALSE)
      order == lows \o highs
  IN  IF b.lo = b.hi THEN {NoSplit}
      ELSE { [split |-> TRUE, splitCol |-> begin + Len(lows),
              src |-> [i \in begin..(begin + count - 1) |-> order[i - begin + 1]]] }

SplitterChoices(policy, data, begin, count) ==
  IF policy = "midpoint" THEN MidpointChoices(data, begin, count)
  ELSE OracleChoices(begin, count)

\* The reordering applied to the matrix (0-based column i is data[i + 1]) ...
ReorderData(data, d) ==
  [i \in 1..Len(data) |-> IF (i - 1) \in DOMAIN d.src THEN data[d.src[i - 1] + 1] ELSE data[i]]

\* ... and to oldFromNew, when the caller tracks it.
ReorderMap(ofn, d) ==
  IF ofn = <<>> THEN <<>>
  ELSE [i \in 1..Len(ofn) |-> IF (i - 1) \in DOMAIN d.src THEN ofn[d.src[i - 1] + 1] ELSE ofn[i]]

------------------------------------------------------------------------------
\* Construction.  A build state st is
\*   [nodes, buffers, ofn, failed]
\* where failed records the ranges for which the splitter reported failure.

NewNode(parent, begin, count, buf) ==
  [left |-> NULL, right |-> NULL, parent |-> parent, begin |-> begin,
   count |-> count, bound |-> [lo |-> 0, hi |-> 0], stat |-> [sum |-> 0, leaf |-> TRUE],
   parentDistance |-> 0, furthestDescendantDistance |-> 0, dataset |-> buf]

\* The parent-distance epilogue of SplitNode.
SetParentDistances(ns, id) ==
  LET centroid == Centroid(ns[id].bound)
      l == ns[id].left
      r == ns[id].right
  IN  [ns EXCEPT ![l].parentDistance = MetricEvaluate(centroid, Centroid(ns[l].bound)),
                 ![r].parentDistance = MetricEvaluate(centroid, Centroid(ns[r].bound))]

\* A slip in the left child's range: it is given the right child's.
LeftRangeAsRight(begin, count, splitCol) ==
  [begin |-> splitCol, count |-> begin + count - splitCol]

\* A slip in the right child's range: it is given the left child's.
RightRangeAsLeft(begin, count, splitCol) ==
  [begin |-> begin, count |-> splitCol - begin]

\* The two children's ranges for a split column.
LeftRange(begin, count, splitCol) == [begin |-> begin, count |-> splitCol - begin]
RightRange(begin, count, splitCol) == [begin |-> splitCol, count |-> begin + count - splitCol]

RECURSIVE SplitNode(_, _, _, _)
RECURSIVE ChildConstructor(_, _, _, _, _, _)

\* BinarySpaceTree(parent, begin, count, [oldFromNew,] splitter, maxLeafSize):
\* allocate the node, split it, then create its statistic.
ChildConstructor(st, parent, begin, count, maxLeafSize, policy) ==
  LET id == Len(st.nodes) + 1
      st0 == [st EXCEPT !.nodes = Append(@, NewNode(parent, begin, count, st.nodes[parent].dataset))]
  IN  { [s EXCEPT !.nodes[id].stat = Statistic(s.nodes, s.buffers, id)] :
          s \in SplitNode(st0, id, maxLeafSize, policy) }

\* SplitNode([oldFromNew,] maxLeafSize, splitter) on node id: the set of
\* outcomes, one for each sequence of decisions the splitter can take.
SplitNode(st, id, maxLeafSize, policy) ==
  LET n == st.nodes[id]
      data == st.buffers[n.dataset]
      bnd == BoundOf(data, n.begin, n.count)
      st1 == [st EXCEPT !.nodes[id].bound = bnd,
                        !.nodes[id].furthestDescendantDistance = Diameter(bnd) \div 2]
  IN  IF n.count <= maxLeafSize THEN {st1}
      ELSE UNION {
        IF ~d.split
        THEN { [st1 EXCEPT !.failed = @ \cup {<<n.begin, n.count>>}] }
        ELSE LET st2 == [st1 EXCEPT !.buffers[n.dataset] = ReorderData(@, d),
                                    !.ofn = ReorderMap(@, d)]
                 lr == LeftRange(n.begin, n.count, d.splitCol)
                 rr == RightRange(n.begin, n.count, d.splitCol)
             IN  UNION { LET lid == Len(st2.nodes) + 1
                             stl == [sl EXCEPT !.nodes[id].left = lid]
                         IN  { LET rid == Len(stl.nodes) + 1
                               IN  [sr EXCEPT !.nodes = SetParentDistances(
                                       [sr.nodes EXCEPT ![id].right = rid], id)] :
                                 sr \in ChildConstructor(stl, id, rr.begin, rr.count,
                                                         maxLeafSize, policy) } :
                         sl \in ChildConstructor(st2, id, lr.begin, lr.count,
                                                 maxLeafSize, policy) }
        : d \in SplitterChoices(policy, data, n.begin, n.count) }

\* for (i = 0; i < n_cols; i++) oldFromNew[i] = i;
IdentityMap(n) == [i \in 1..n |-> i - 1]

\* newFromOld.resize(n); for (i = 0; i < n_cols; i++) newFromOld[oldFromNew[i]] = i;
RECURSIVE InvertLoop(_, _, _)
InvertLoop(nfo, ofn, i) ==
  IF i >= Len(ofn) THEN nfo
  ELSE InvertLoop([nfo EXCEPT ![ofn[i + 1] + 1] = i], ofn, i + 1)

\* A slip in the inversion: newFromOld[i] = oldFromNew[i].
InvertMapAsCopy(ofn) == ofn

InvertMap(ofn) == InvertLoop([i \in 1..Len(ofn) |-> 0], ofn, 0)

\* The three public constructors: maps = 0 (data, maxLeafSize), 1 (data,
\* oldFromNew, maxLeafSize), 2 (data, oldFromNew, newFromOld, maxLeafSize).
\* The new root is node Len(ns) + 1 and owns a fresh copy of the data.
RootConstructor(ns, bufs, data, maps, maxLeafSize, policy) ==
  LET id == Len(ns) + 1
      buf == Len(bufs) + 1
      st0 == [nodes |-> Append(ns, NewNode(NULL, 0, Len(data), buf)),
              buffers |-> Append(bufs, data),
              ofn |-> IF maps = 0 THEN <<>> ELSE IdentityMap(Len(data)),
              failed |-> {}]
  IN  { [nodes |-> [s.nodes EXCEPT ![id].stat = Statistic(s.nodes, s.buffers, id)],
         buffers |-> s.buffers,
         ofn |-> s.ofn,
         nfo |-> IF maps = 2 THEN InvertMap(s.ofn) ELSE <<>>,
         failed |-> s.failed] :
          s \in SplitNode(st0, id, maxLeafSize, policy) }

------------------------------------------------------------------------------
\* Accessors and shape queries.

IsLeaf(ns, id) == ns[id].left = NULL
End(ns, id) == ns[id].begin + ns[id].count
NumPoints(ns, id) == IF ns[id].left # NULL THEN 0 ELSE ns[id].count

RECURSIVE TreeSize(_, _)
TreeSize(ns, id) ==
  1 + (IF ns[id].left # NULL THEN TreeSize(ns, ns[id].left) ELSE 0)
    + (IF ns[id].right # NULL THEN TreeSize(ns, ns[id].right) ELSE 0)

RECURSIVE TreeDepth(_, _)
TreeDepth(ns, id) ==
  LET l == IF ns[id].left # NULL THEN TreeDepth(ns, ns[id].left) ELSE 0
      r == IF ns[id].right # NULL THEN TreeDepth(ns, ns[id].right) ELSE 0
  IN  1 + (IF l >= r THEN l ELSE r)

RECURSIVE NumDescendantNodes(_, _)
NumDescendantNodes(ns, id) ==
  LET l == ns[id].left
      r == ns[id].right
  IN  IF l # NULL /\ r # NULL
      THEN 2 + NumDescendantNodes(ns, l) + NumDescendantNodes(ns, r)
      ELSE IF l # NULL THEN 1 + NumDescendantNodes(ns, l)
      ELSE IF r # NULL THEN 1 + NumDescendantNodes(ns, r)
      ELSE 0

\* A slip in the walk: right is pushed before left.
PushChildrenRightFirst(ns, id) ==
  (IF ns[id].right # NULL THEN <<ns[id].right>> ELSE <<>>) \o
  (IF ns[id].left # NULL THEN <<ns[id].left>> ELSE <<>>)

\* The children a queue-based walk pushes for a node: left, then right.
PushChildren(ns, id) ==
  (IF ns[id].left # NULL THEN <<ns[id].left>> ELSE <<>>) \o
  (IF ns[id].right # NULL THEN <<ns[id].right>> ELSE <<>>)

\* The while loop of DescendantNode(index).
RECURSIVE DescendantLoop(_, _, _, _)
DescendantLoop(ns, queue, currentIndex, index) ==
  IF queue = <<>> THEN InvalidArgument
  ELSE LET node == Head(queue)
       IN  IF currentIndex = index THEN node
           ELSE DescendantLoop(ns, Tail(queue) \o PushChildren(ns, node),
                               currentIndex + 1, index)

DescendantNode(ns, id, index) == DescendantLoop(ns, PushChildren(ns, id), 0, index)

------------------------------------------------------------------------------
\* Identity lookup.  Log::Assert stops the call when the build has assertions
\* (asserts = TRUE) and is empty otherwise.

\* FindByBeginCount(queryBegin, queryCount) const
RECURSIVE FindByBeginCountConst(_, _, _, _, _)
FindByBeginCountConst(ns, id, queryBegin, queryCount, asserts) ==
  IF asserts /\ ~(queryBegin >= ns[id].begin) THEN AssertFailed
  ELSE IF asserts /\ ~(queryCount <= ns[id].count) THEN AssertFailed
  ELSE IF ns[id].begin = queryBegin /\ ns[id].count = queryCount THEN id
  ELSE IF IsLeaf(ns, id) THEN NULL
  ELSE IF queryBegin < ns[ns[id].right].begin
       THEN FindByBeginCountConst(ns, ns[id].left, queryBegin, queryCount, asserts)
       ELSE FindByBeginCountConst(ns, ns[id].right, queryBegin, queryCount, asserts)

\* FindByBeginCount(queryBegin, queryCount), the non-const overload
RECURSIVE FindByBeginCount(_, _, _, _, _)
FindByBeginCount(ns, id, queryBegin, queryCount, asserts) ==
  IF asserts /\ ~(ns[id].begin >= queryBegin) THEN AssertFailed
  ELSE IF asserts /\ ~(ns[id].count <= queryCount) THEN AssertFailed
  ELSE IF ns[id].begin = queryBegin /\ ns[id].count = queryCount THEN id
  ELSE IF IsLeaf(ns, id) THEN NULL
  ELSE IF queryBegin < End(ns, ns[id].left)
       THEN FindByBeginCount(ns, ns[id].left, queryBegin, queryCount, asserts)
  ELSE IF ns[id].right # NULL
       THEN FindByBeginCount(ns, ns[id].right, queryBegin, queryCount, asserts)
  ELSE NULL

------------------------------------------------------------------------------
\* Copy construction.  A copy state is [nodes, buffers].

\* The breadth-first walk that hands the root's matrix to every descendant.
RECURSIVE PropagateLoop(_, _, _)
PropagateLoop(ns, queue, buf) ==
  IF queue = <<>> THEN ns
  ELSE LET node == Head(queue)
       IN  PropagateLoop([ns EXCEPT ![node].dataset = buf],
                         Tail(queue) \o PushChildren(ns, node), buf)

\* A slip in the propagation: only the two children receive the matrix.
PropagateDatasetToChildren(ns, id) ==
  LET l == ns[id].left
      r == ns[id].right
      ns1 == IF l # NULL THEN [ns EXCEPT ![l].dataset = ns[id].dataset] ELSE ns
  IN  IF r # NULL THEN [ns1 EXCEPT ![r].dataset = ns[id].dataset] ELSE ns1

PropagateDataset(ns, id) ==
  PropagateLoop(ns, PushChildren(ns, id), ns[id].dataset)

\* BinarySpaceTree(const BinarySpaceTree& other); the copy is node
\* Len(st.nodes) + 1.
RECURSIVE CopyConstructor(_, _)
CopyConstructor(st, other) ==
  LET o == st.nodes[other]
      id == Len(st.nodes) + 1
      isRoot == o.parent = NULL
      buf == IF isRoot THEN Len(st.buffers) + 1 ELSE NULL
      init == [left |-> NULL, right |-> NULL, parent |-> o.parent,
               begin |-> o.begin, count |-> o.count, bound |-> o.bound,
               stat |-> o.stat, parentDistance |-> o.parentDistance,
               furthestDescendantDistance |-> o.furthestDescendantDistance,
               dataset |-> buf]
      st0 == [nodes |-> Append(st.nodes, init),
              buffers |-> IF isRoot THEN Append(st.buffers, st.buffers[o.dataset])
                          ELSE st.buffers]
      \* left = new BinarySpaceTree(*other.Left()); left->Parent() = this;
      lid == Len(st0.nodes) + 1
      st1 == IF o.left = NULL THEN st0
             ELSE LET c == CopyConstructor(st0, o.left)
                  IN  [c EXCEPT !.nodes[id].left = lid, !.nodes[lid].parent = id]
      \* right = new BinarySpaceTree(*other.Right()); right->Parent() = this;
      rid == Len(st1.nodes) + 1
      st2 == IF o.right = NULL THEN st1
             ELSE LET c == CopyConstructor(st1, o.right)
                  IN  [c EXCEPT !.nodes[id].right = rid, !.nodes[rid].parent = id]
  IN  IF st2.nodes[id].parent = NULL
      THEN [st2 EXCEPT !.nodes = PropagateDataset(@, id)]
      ELSE st2

------------------------------------------------------------------------------
\* Destruction.  The objects a destructor call releases are logged in order:
\* [nodes, buffers], the node objects deleted and the matrices deleted.

\* if (!parent) delete dataset;
OwnsDatasetAlways(ns, id) == TRUE

OwnsDataset(ns, id) == ns[id].parent = NULL

\* ~BinarySpaceTree() run on node id
RECURSIVE Destructor(_, _)
Destructor(ns, id) ==
  LET l == IF ns[id].left # NULL
           THEN LET d == Destructor(ns, ns[id].left)
                IN  [nodes |-> Append(d.nodes, ns[id].left), buffers |-> d.buffers]
           ELSE [nodes |-> <<>>, buffers |-> <<>>]
      r == IF ns[id].right # NULL
           THEN LET d == Destructor(ns, ns[id].right)
                IN  [nodes |-> Append(d.nodes, ns[id].right), buffers |-> d.buffers]
           ELSE [nodes |-> <<>>, buffers |-> <<>>]
  IN  [nodes |-> l.nodes \o r.nodes,
       buffers |-> l.buffers \o r.buffers \o
                   (IF OwnsDataset(ns, id) /\ ns[id].dataset # NULL
                    THEN <<ns[id].dataset>> ELSE <<>>)]

------------------------------------------------------------------------------
\* Serialization.  An archive is a sequence of integers.  A pointer is written
\* as 0 (null), as 1 followed by the object, or, for a matrix the archive
\* already holds, as 2 followed by the position at which it was first written.

\* A slip in the tolerance: std::abs(x) < 1.5.
NearZeroLoose(x) == Abs(x) < 3

\* std::abs(x) < 1e-10, for a double kept in halves.
NearZero(x) == Abs(x) < 1

\* ar & CreateNVP(dataset, "dataset") when saving: st is [nodes, out, seen].
SaveDataset(st, buf) ==
  IF buf = NULL THEN [st EXCEPT !.out = @ \o <<0>>]
  ELSE IF \E k \in 1..Len(st.seen) : st.seen[k] = buf
  THEN [st EXCEPT !.out = @ \o <<2, CHOOSE k \in 1..Len(st.seen) : st.seen[k] = buf>>]
  ELSE [st EXCEPT !.out = @ \o <<1, Len(st.bufs[buf])>> \o st.bufs[buf],
                  !.seen = Append(@, buf)]

\* A slip in the field order: the two distances are written swapped.
SaveFieldsSwapped(n) ==
  <<n.begin, n.count, n.bound.lo, n.bound.hi, n.stat.sum,
    IF n.stat.leaf THEN 1 ELSE 0, n.furthestDescendantDistance, n.parentDistance>>

\* begin, count, bound, statistic, parentDistance, furthestDescendantDistance
SaveFields(n) ==
  <<n.begin, n.count, n.bound.lo, n.bound.hi, n.stat.sum,
    IF n.stat.leaf THEN 1 ELSE 0, n.parentDistance, n.furthestDescendantDistance>>

\* A slip in the epilogue: parentDistance keeps the remaining-levels counter.
RestoreChildrenOnly(st, id, oldLeft, oldRight, oldParentDistance) ==
  IF NearZero(st.nodes[id].parentDistance)
  THEN [st EXCEPT !.nodes[id].left = oldLeft, !.nodes[id].right = oldRight]
  ELSE st

\* The epilogue of a save: restore the children, if hidden, and parentDistance.
RestoreAfterSave(st, id, oldLeft, oldRight, oldParentDistance) ==
  LET st5 == IF NearZero(st.nodes[id].parentDistance)
             THEN [st EXCEPT !.nodes[id].left = oldLeft, !.nodes[id].right = oldRight]
             ELSE st
  IN  [st5 EXCEPT !.nodes[id].parentDistance = oldParentDistance]

RECURSIVE SerializeSave(_, _, _)
RECURSIVE SaveChild(_, _)

\* ar & CreateNVP(left, "left") when saving: a child is saved through
\* Serialize(ar, version), that is with maxDepth 0.
SaveChild(st, child) ==
  IF child = NULL THEN [st EXCEPT !.out = @ \o <<0>>]
  ELSE SerializeSave([st EXCEPT !.out = @ \o <<1>>], child, 0)

\* Serialize(ar, version, maxDepth) with a saving archive, on node id.
SerializeSave(st, id, maxDepth) ==
  LET n == st.nodes[id]
      st1 == SaveDataset([st EXCEPT !.out = @ \o SaveFields(n)], n.dataset)
      oldParentDistance == n.parentDistance
      remaining == IF n.parent = NULL
                   THEN ToDouble(maxDepth) - ToDouble(1)
                   ELSE st.nodes[n.parent].parentDistance - ToDouble(1)
      oldLeft == n.left
      oldRight == n.right
      st2 == [st1 EXCEPT !.nodes[id].parentDistance = remaining,
                         !.nodes[id].left = IF NearZero(remaining) THEN NULL ELSE @,
                         !.nodes[id].right = IF NearZero(remaining) THEN NULL ELSE @]
      st3 == SaveChild(st2, st2.nodes[id].left)
      st4 == SaveChild(st3, st3.nodes[id].right)
  IN  RestoreAfterSave(st4, id, oldLeft, oldRight, oldParentDistance)

\* The saving entry points: Serialize(ar, version, maxDepth) on node id with
\* an empty archive.
Save(ns, bufs, id, maxDepth) ==
  SerializeSave([nodes |-> ns, bufs |-> bufs, out |-> <<>>, seen |-> <<>>], id, maxDepth)

\* BinarySpaceTree(): the empty node a load starts from.
DefaultNode == NewNode(NULL, 0, 0, NULL)

\* ar & CreateNVP(dataset, "dataset") when loading: st is
\* [nodes, buffers, in, pos, objs], pos the next position to read.
LoadDataset(st, id) ==
  LET tag == st.in[st.pos]
  IN  IF tag = 0 THEN [st EXCEPT !.nodes[id].dataset = NULL, !.pos = @ + 1]
      ELSE IF tag = 2
      THEN [st EXCEPT !.nodes[id].dataset = st.objs[st.in[st.pos + 1]], !.pos = @ + 2]
      ELSE LET len == st.in[st.pos + 1]
               buf == Len(st.buffers) + 1
           IN  [st EXCEPT !.buffers = Append(@, [i \in 1..len |-> st.in[st.pos + 1 + i]]),
                          !.objs = Append(@, buf),
                          !.nodes[id].dataset = buf,
                          !.pos = @ + 2 + len]

RECURSIVE SerializeLoad(_, _)
RECURSIVE LoadChild(_)

\* ar & CreateNVP(left, "left") when loading: the state after it, with the
\* pointer read in field ptr.
LoadChild(st) ==
  IF st.in[st.pos] = 0 THEN [st EXCEPT !.pos = @ + 1, !.ptr = NULL]
  ELSE LET child == Len(st.nodes) + 1
           made == [st EXCEPT !.nodes = Append(@, DefaultNode), !.pos = @ + 1]
       IN  [SerializeLoad(made, child) EXCEPT !.ptr = child]

\* Serialize(ar, version, maxDepth) with a loading archive, on the empty node id.
SerializeLoad(st, id) ==
  LET p == st.pos
      st1 == [st EXCEPT !.nodes[id].begin = st.in[p],
                        !.nodes[id].count = st.in[p + 1],
                        !.nodes[id].bound = [lo |-> st.in[p + 2], hi |-> st.in[p + 3]],
                        !.nodes[id].stat = [sum |-> st.in[p + 4], leaf |-> st.in[p + 5] = 1],
                        !.nodes[id].parentDistance = st.in[p + 6],
                        !.nodes[id].furthestDescendantDistance = st.in[p + 7],
                        !.pos = p + 8]
      st2 == LoadDataset(st1, id)
      st3 == LoadChild(st2)
      l == st3.ptr
      st4 == LoadChild([st3 EXCEPT !.nodes[id].left = l])
      r == st4.ptr
      st5 == [st4 EXCEPT !.nodes[id].right = r]
      \* if (left) left->Parent() = this; if (right) right->Parent() = this;
      st6 == IF l # NULL THEN [st5 EXCEPT !.nodes[l].parent = id] ELSE st5
  IN  IF r # NULL THEN [st6 EXCEPT !.nodes[r].parent = id] ELSE st6

\* BinarySpaceTree(Archive& ar): an empty node, then ar >> *this.  The loaded
\* root is node Len(ns) + 1.
Load(ns, bufs, ar) ==
  SerializeLoad([nodes |-> Append(ns, DefaultNode), buffers |-> bufs, in |-> ar,
                 pos |-> 1, objs |-> <<>>, ptr |-> NULL], Len(ns) + 1)

------------------------------------------------------------------------------
\* The Rule consumed by the traversals: nearest-neighbour search.  A rule state
\* is [distances, neighbors], one entry for each query point; DBL_MAX is the
\* distance of a point without candidate and the score of a pruned pair.

DBL_MAX == 1000

FreshRule(n) == [distances |-> [i \in 1..n |-> DBL_MAX], neighbors |-> [i \in 1..n |-> -1]]

\* rule->BaseCase(queryIndex, referenceIndex)
BaseCase(rule, qdata, rdata, qi, ri) ==
  LET d == ToDouble(Abs(qdata[qi + 1] - rdata[ri + 1]))
  IN  IF d < rule.distances[qi + 1]
      THEN [distances |-> [rule.distances EXCEPT ![qi + 1] = d],
            neighbors |-> [rule.neighbors EXCEPT ![qi + 1] = ri]]
      ELSE rule

\* rule->Score(queryNode, referenceNode): the distance between the two bounds,
\* or DBL_MAX when no query point below queryNode can improve.
Score(ns, rule, q, r) ==
  LET gap == SetMax({0, ns[q].bound.lo - ns[r].bound.hi, ns[r].bound.lo - ns[q].bound.hi})
      worst == SetMax({ rule.distances[p + 1] : p \in ns[q].begin..(End(ns, q) - 1) })
  IN  IF ToDouble(gap) > worst THEN DBL_MAX ELSE ToDouble(gap)

\* results.Merge(rule): fold a result table into a rule; a default-constructed
\* table (no result received) is empty and changes nothing.
NoResults == [distances |-> <<>>, neighbors |-> <<>>]

Merge(results, rule) ==
  IF results = NoResults THEN rule
  ELSE [distances |-> [i \in 1..Len(rule.distances) |->
                         IF results.distances[i] < rule.distances[i]
                         THEN results.distances[i] ELSE rule.distances[i]],
        neighbors |-> [i \in 1..Len(rule.neighbors) |->
                         IF results.distances[i] < rule.distances[i]
                         THEN results.neighbors[i] ELSE rule.neighbors[i]]]

\* for (i < queryNode.NumPoints()) for (j < referenceNode.NumPoints())
\*   rule->BaseCase(queryNode.Point(i), referenceNode.Point(j));
RECURSIVE BaseCaseLoop(_, _, _, _, _, _, _)
BaseCaseLoop(ns, bufs, rule, q, r, i, j) ==
  IF i >= NumPoints(ns, q) THEN rule
  ELSE IF j >= NumPoints(ns, r) THEN BaseCaseLoop(ns, bufs, rule, q, r, i + 1, 0)
  ELSE BaseCaseLoop(ns, bufs,
                    BaseCase(rule, bufs[ns[q].dataset], bufs[ns[r].dataset],
                             ns[q].begin + i, ns[r].begin + j),
                    q, r, i, j + 1)

BaseCases(ns, bufs, rule, q, r) == BaseCaseLoop(ns, bufs, rule, q, r, 0, 0)

\* The pairs a dual recursion descends into, in the order of the calls.
ChildPairs(ns, q, r) ==
  IF ~IsLeaf(ns, q) /\ ~IsLeaf(ns, r)
  THEN << <<ns[q].left, ns[r].left>>, <<ns[q].left, ns[r].right>>,
          <<ns[q].right, ns[r].left>>, <<ns[q].right, ns[r].right>> >>
  ELSE IF IsLeaf(ns, q) /\ ~IsLeaf(ns, r)
  THEN << <<q, ns[r].left>>, <<q, ns[r].right>> >>
  ELSE IF ~IsLeaf(ns, q) /\ IsLeaf(ns, r)
  THEN << <<ns[q].left, r>>, <<ns[q].right, r>> >>
  ELSE << >>

\* The single-process dual-tree traverser run by a worker and by a
\* non-distributed search: score, prune, base cases, recurse.
RECURSIVE DualTraverse(_, _, _, _, _)
RECURSIVE DualTraverseAll(_, _, _, _)
DualTraverseAll(ns, bufs, rule, pairs) ==
  IF pairs = <<>> THEN rule
  ELSE DualTraverseAll(ns, bufs,
                       DualTraverse(ns, bufs, rule, Head(pairs)[1], Head(pairs)[2]),
                       Tail(pairs))

DualTraverse(ns, bufs, rule, q, r) ==
  IF Score(ns, rule, q, r) = DBL_MAX THEN rule
  ELSE DualTraverseAll(ns, bufs, BaseCases(ns, bufs, rule, q, r), ChildPairs(ns, q, r))

------------------------------------------------------------------------------
\* The distributed traversal.  W is the number of workers, world.size() - 1.

\* std::ceil(std::log2(n)) for n >= 1
RECURSIVE CeilLog2(_)
CeilLog2(n) == IF n <= 1 THEN 0 ELSE 1 + CeilLog2((n + 1) \div 2)

\* level < std::ceil(std::log2(world.size() - 1)) / 2
RecurseLocally(level, W) == 2 * level < CeilLog2(W)

RECURSIVE Pow4(_)
Pow4(k) == IF k = 0 THEN 1 ELSE 4 * Pow4(k - 1)

\* A GetTarget loop that puts the most recent branch in the most significant
\* position.
RECURSIVE GetTargetLoopRecentFirst(_, _, _, _, _)
GetTargetLoopRecentFirst(ns, currentQuery, currentRef, level, index) ==
  IF ns[currentQuery].parent # NULL /\ ns[currentRef].parent # NULL
  THEN LET currentIndex ==
             (IF ns[ns[currentQuery].parent].right = currentQuery THEN 2 ELSE 0) +
             (IF ns[ns[currentRef].parent].right = currentRef THEN 1 ELSE 0)
       IN  GetTargetLoopRecentFirst(ns, ns[currentQuery].parent, ns[currentRef].parent,
                                    level + 1, 4 * index + currentIndex)
  ELSE index

\* A GetTarget loop that encodes the query side of a branch only.
RECURSIVE GetTargetLoopQueryOnly(_, _, _, _, _)
GetTargetLoopQueryOnly(ns, currentQuery, currentRef, level, index) ==
  IF ns[currentQuery].parent # NULL /\ ns[currentRef].parent # NULL
  THEN LET currentIndex ==
             (IF ns[ns[currentQuery].parent].right = currentQuery THEN 2 ELSE 0)
       IN  GetTargetLoopQueryOnly(ns, ns[currentQuery].parent, ns[currentRef].parent,
                                  level + 1, index + currentIndex * Pow4(level))
  ELSE index

\* The while loop of GetTarget.
RECURSIVE GetTargetLoop(_, _, _, _, _)
GetTargetLoop(ns, currentQuery, currentRef, level, index) ==
  IF ns[currentQuery].parent # NULL /\ ns[currentRef].parent # NULL
  THEN LET currentIndex ==
             (IF ns[ns[currentQuery].parent].right = currentQuery THEN 2 ELSE 0) +
             (IF ns[ns[currentRef].parent].right = currentRef THEN 1 ELSE 0)
       IN  GetTargetLoop(ns, ns[currentQuery].parent, ns[currentRef].parent,
                         level + 1, index + currentIndex * Pow4(level))
  ELSE index

GetTarget(ns, q, r) == GetTargetLoop(ns, q, r, 0, 0) + 1

\* The calls MasterTraverse makes on its children, as stack frames.
ChildFrames(ns, q, r, level) ==
  LET pairs == ChildPairs(ns, q, r)
  IN  [i \in 1..Len(pairs) |-> [q |-> pairs[i][1], r |-> pairs[i][2], level |-> level + 1]]

------------------------------------------------------------------------------
\* State.

VARIABLES
  pc,             \* what the program did last
  nodes,          \* the heap of tree nodes
  buffers,        \* the heap of dataset matrices
  root,           \* the built tree
  oldFromNew,     \* the caller's permutation maps
  newFromOld,
  maxLeafSize,    \* the build's leaf-size bound
  failed,         \* ranges for which the splitter reported failure
  archive,        \* the archive written by the last save
  call,           \* the last call's arguments and result
  \* The distributed traversal.
  W,              \* the number of workers, world.size() - 1
  eager,          \* whether MPI buffers a standard-mode send
  qroot,          \* the query tree and the reference tree
  rroot,
  initialRule,    \* the Rule handed to the coordinator
  mpc,            \* where the coordinator (rank 0) is
  stack,          \* the coordinator's pending MasterTraverse calls
  rule,           \* the coordinator's Rule
  inbox,          \* inbox[w]: task messages sent to rank w and not yet received
  worker,         \* worker[w]: rank w's position, Rule and task
  outbox,         \* outbox[w]: result messages of rank w not yet matched
  resultRequests, \* resultRequests[w]: the request slot w - 1
  results,        \* results[w]: the result slot w - 1
  mergeIdx,       \* the index of the merge loop
  dispatched,     \* the sends the coordinator made, in order
  arrived         \* the ranks whose result message was matched, in order

tvars == <<pc, nodes, buffers, root, oldFromNew, newFromOld, maxLeafSize, failed,
           archive, call>>
dvars == <<W, eager, qroot, rroot, initialRule, mpc, stack, rule, inbox, worker,
           outbox, resultRequests, results, mergeIdx, dispatched, arrived>>
vars == <<tvars, dvars>>

NoCall == [op |-> "none"]

\* The datasets handed to a build: the points 1..n in order, under the
\* oracle strategy; coincident points and the points 1..8, under midpoint.
Ramp(n) == [i \in 1..n |-> i]
BuildInputs ==
  { [data |-> Ramp(n), policy |-> "oracle"] : n \in 1..MaxN } \cup
  { [data |-> [i \in 1..n |-> 1], policy |-> "midpoint"] : n \in 1..MaxN } \cup
  { [data |-> <<1, 2, 3, 4, 5, 6, 7, 8>>, policy |-> "midpoint"] }

Init ==
  /\ pc = "start"
  /\ nodes = <<>>
  /\ buffers = <<>>
  /\ root = NULL
  /\ oldFromNew = <<>>
  /\ newFromOld = <<>>
  /\ maxLeafSize = 0
  /\ failed = {}
  /\ archive = <<>>
  /\ call = NoCall
  /\ W = 0
  /\ eager = FALSE
  /\ qroot = NULL
  /\ rroot = NULL
  /\ initialRule = FreshRule(0)
  /\ mpc = "idle"
  /\ stack = <<>>
  /\ rule = FreshRule(0)
  /\ inbox = <<>>
  /\ worker = <<>>
  /\ outbox = <<>>
  /\ resultRequests = <<>>
  /\ results = <<>>
  /\ mergeIdx = 0
  /\ dispatched = <<>>
  /\ arrived = <<>>

\* new BinarySpaceTree(data, [oldFromNew, [newFromOld,]] maxLeafSize)
Build ==
  /\ pc = "start"
  /\ \E in \in BuildInputs, k \in 1..MaxLeaf, maps \in 0..2 :
       \E s \in RootConstructor(nodes, buffers, in.data, maps, k, in.policy) :
         /\ nodes' = s.nodes
         /\ buffers' = s.buffers
         /\ root' = Len(nodes) + 1
         /\ oldFromNew' = s.ofn
         /\ newFromOld' = s.nfo
         /\ maxLeafSize' = k
         /\ failed' = s.failed
         /\ call' = [op |-> "build", maps |-> maps]
  /\ pc' = "built"
  /\ UNCHANGED <<archive, dvars>>

\* root->FindByBeginCount(queryBegin, queryCount), either overload
Find ==
  /\ pc = "built"
  /\ \E const \in BOOLEAN, asserts \in BOOLEAN,
        qb \in 0..nodes[root].count, qc \in 0..nodes[root].count :
       /\ qb + qc <= nodes[root].count
       /\ call' = [op |-> "find", const |-> const, asserts |-> asserts,
                   queryBegin |-> qb, queryCount |-> qc,
                   result |-> IF const
                              THEN FindByBeginCountConst(nodes, root, qb, qc, asserts)
                              ELSE FindByBeginCount(nodes, root, qb, qc, asserts)]
  /\ pc' = "found"
  /\ UNCHANGED <<nodes, buffers, root, oldFromNew, newFromOld, maxLeafSize, failed, archive, dvars>>

\* node.DescendantNode(index)
Descendant ==
  /\ pc = "built"
  /\ \E n \in 1..Len(nodes) :
       \E index \in 0..(NumDescendantNodes(nodes, n) + 1) :
         call' = [op |-> "descendant", node |-> n, index |-> index,
                  result |-> DescendantNode(nodes, n, index)]
  /\ pc' = "descended"
  /\ UNCHANGED <<nodes, buffers, root, oldFromNew, newFromOld, maxLeafSize, failed, archive, dvars>>

\* new BinarySpaceTree(other)
Copy ==
  /\ pc = "built"
  /\ \E other \in 1..Len(nodes) :
       LET c == CopyConstructor([nodes |-> nodes, buffers |-> buffers], other)
       IN  /\ nodes' = c.nodes
           /\ buffers' = c.buffers
           /\ call' = [op |-> "copy", other |-> other, copy |-> Len(nodes) + 1]
  /\ pc' = "copied"
  /\ UNCHANGED <<root, oldFromNew, newFromOld, maxLeafSize, failed, archive, dvars>>

\* copy.Dataset()(0, col) = 0: the caller overwrites a point of the copy.
MutateCopy ==
  /\ pc = "copied"
  /\ nodes[call.copy].dataset # NULL
  /\ \E col \in 1..Len(buffers[nodes[call.copy].dataset]) :
       buffers' = [buffers EXCEPT ![nodes[call.copy].dataset][col] = 0]
  /\ call' = [call EXCEPT !.op = "mutate"]
  /\ pc' = "mutated"
  /\ UNCHANGED <<nodes, root, oldFromNew, newFromOld, maxLeafSize, failed, archive, dvars>>

\* node.Serialize(ar, version, maxDepth) with a saving archive
SaveTree ==
  /\ pc = "built"
  /\ \E n \in 1..Len(nodes), maxDepth \in 0..MaxDepthArg :
       LET s == Save(nodes, buffers, n, maxDepth)
       IN  /\ nodes' = s.nodes
           /\ archive' = s.out
           /\ call' = [op |-> "save", node |-> n, maxDepth |-> maxDepth]
  /\ pc' = "saved"
  /\ UNCHANGED <<buffers, root, oldFromNew, newFromOld, maxLeafSize, failed, dvars>>

\* new BinarySpaceTree(ar) with a loading archive
LoadTree ==
  /\ pc = "saved"
  /\ LET s == Load(nodes, buffers, archive)
     IN  /\ nodes' = s.nodes
         /\ buffers' = s.buffers
         /\ call' = [op |-> "load", node |-> call.node, maxDepth |-> call.maxDepth,
                     loaded |-> Len(nodes) + 1]
  /\ pc' = "loaded"
  /\ UNCHANGED <<root, oldFromNew, newFromOld, maxLeafSize, failed, archive, dvars>>

\* A node is destroyed: its destructor runs.
Destroy ==
  /\ pc \in {"built", "copied", "mutated", "loaded"}
  /\ \E n \in 1..Len(nodes) :
       LET d == Destructor(nodes, n)
       IN  call' = [op |-> "destroy", node |-> n, from |-> pc,
                    freedNodes |-> d.nodes, freedBuffers |-> d.buffers]
  /\ pc' = "destroyed"
  /\ UNCHANGED <<nodes, buffers, root, oldFromNew, newFromOld, maxLeafSize, failed,
                 archive, dvars>>

Next ==
  \/ Build
  \/ Find
  \/ Descendant
  \/ Copy
  \/ MutateCopy
  \/ SaveTree
  \/ LoadTree
  \/ Destroy

Spec == Init /\ [][Next]_vars

------------------------------------------------------------------------------
\* The distributed run: rank 0 has entered Traverse(queryRoot, referenceRoot)
\* and allocated its arrays; every other rank sits in its constructor.

\* The tree the midpoint strategy builds over data with leaf size 1, on top
\* of the heap (ns, bufs).
BuiltTree(ns, bufs, data) ==
  CHOOSE s \in RootConstructor(ns, bufs, data, 0, 1, "midpoint") : TRUE

\* The data of a run: the two sets coincide, lie apart, or interleave (every
\* inner query point is equally far from two reference points).
Layouts == {"same", "apart", "interleaved"}
QueryData(layout, n) ==
  [i \in 1..n |-> IF layout = "same" THEN i
                  ELSE IF layout = "apart" THEN i + MaxPts ELSE 2 * i]
ReferenceData(layout, n) ==
  [i \in 1..n |-> IF layout = "interleaved" THEN 2 * i - 1 ELSE i]

NullRequest == [state |-> "null", posted |-> 0]
IdleWorker == [pc |-> "recv", rule |-> FreshRule(0), q |-> NULL, r |-> NULL]

InitDist ==
  \E w \in 1..MaxW, nq \in 1..MaxPts, nr \in 1..MaxPts, layout \in Layouts,
     e \in BOOLEAN, tight \in BOOLEAN :
    LET qt == BuiltTree(<<>>, <<>>, QueryData(layout, nq))
        rt == BuiltTree(qt.nodes, qt.buffers, ReferenceData(layout, nr))
        r0 == IF tight THEN [distances |-> [i \in 1..nq |-> 0],
                             neighbors |-> [i \in 1..nq |-> 0]]
              ELSE FreshRule(nq)
    IN  /\ pc = "distributed"
        /\ nodes = rt.nodes
        /\ buffers = rt.buffers
        /\ root = NULL
        /\ oldFromNew = <<>>
        /\ newFromOld = <<>>
        /\ maxLeafSize = 1
        /\ failed = {}
        /\ archive = <<>>
        /\ call = NoCall
        /\ W = w
        /\ eager = e
        /\ qroot = 1
        /\ rroot = Len(qt.nodes) + 1
        /\ initialRule = r0
        /\ mpc = "traverse"
        /\ stack = << [q |-> 1, r |-> Len(qt.nodes) + 1, level |-> 0] >>
        /\ rule = r0
        /\ inbox = [i \in 1..w |-> <<>>]
        /\ worker = [i \in 1..w |-> IdleWorker]
        /\ outbox = [i \in 1..w |-> <<>>]
        /\ resultRequests = [i \in 1..w |-> NullRequest]
        /\ results = [i \in 1..w |-> NoResults]
        /\ mergeIdx = 0
        /\ dispatched = <<>>
        /\ arrived = <<>>

\* if (score == DBL_MAX) return;
PrunedNever(ns, r0, q, r) == FALSE

Pruned(ns, r0, q, r) == Score(ns, r0, q, r) = DBL_MAX

\* MasterTraverse below the dispatch level: score, base cases, recursion.
MasterRecurse ==
  /\ mpc = "traverse"
  /\ stack # <<>>
  /\ RecurseLocally(Head(stack).level, W)
  /\ LET f == Head(stack)
     IN  IF Pruned(nodes, rule, f.q, f.r)
         THEN /\ stack' = Tail(stack)
              /\ rule' = rule
         ELSE /\ rule' = BaseCases(nodes, buffers, rule, f.q, f.r)
              /\ stack' = ChildFrames(nodes, f.q, f.r, f.level) \o Tail(stack)
  /\ UNCHANGED <<tvars, W, eager, qroot, rroot, initialRule, mpc, inbox, worker, outbox,
                 resultRequests, results, mergeIdx, dispatched, arrived>>

\* MasterTraverse at the dispatch level: wrap the pair and the Rule, compute
\* the target and enter world.send(target, 0, wrapper).  A target that is no
\* rank of the communicator is an MPI error, which ends the run.
MasterSend ==
  /\ mpc = "traverse"
  /\ stack # <<>>
  /\ ~RecurseLocally(Head(stack).level, W)
  /\ LET f == Head(stack)
         target == GetTarget(nodes, f.q, f.r)
     IN  /\ dispatched' = Append(dispatched, [q |-> f.q, r |-> f.r, target |-> target, rule |-> rule])
         /\ IF target > W
            THEN /\ mpc' = "aborted"
                 /\ inbox' = inbox
            ELSE /\ mpc' = "send"
                 /\ inbox' = [inbox EXCEPT ![target] =
                                Append(@, [rule |-> rule, q |-> f.q, r |-> f.r])]
  /\ UNCHANGED <<tvars, W, eager, qroot, rroot, initialRule, stack, rule, worker, outbox,
                 resultRequests, results, mergeIdx, arrived>>

\* When world.send, a blocking standard-mode send, returns: MPI has buffered
\* the message (e), or the target has received it (box, the target's unreceived
\* messages, is empty).
SendReturnsAtOnce(e, box) == TRUE

SendReturns(e, box) == e \/ box = <<>>

\* world.send returns, once the message is buffered or received, and the
\* coordinator registers resultRequests[target - 1] = world.irecv(...).
MasterIrecv ==
  /\ mpc = "send"
  /\ LET target == dispatched[Len(dispatched)].target
     IN  /\ SendReturns(eager, inbox[target])
         /\ resultRequests' = [resultRequests EXCEPT ![target] =
                                 [state |-> "pending", posted |-> @.posted + 1]]
  /\ stack' = Tail(stack)
  /\ mpc' = "traverse"
  /\ UNCHANGED <<tvars, W, eager, qroot, rroot, initialRule, rule, inbox, worker, outbox,
                 results, mergeIdx, dispatched, arrived>>

\* What wait_all takes for a finished request: a completed one, or one that
\* was never registered.
RequestCompleteAlways(req) == TRUE

RequestComplete(req) == req.state \in {"null", "complete"}

\* boost::mpi::wait_all returns: every request of the array is complete.
MasterWaitAll ==
  /\ mpc = "traverse"
  /\ stack = <<>>
  /\ \A w \in 1..W : RequestComplete(resultRequests[w])
  /\ mpc' = "merge"
  /\ mergeIdx' = 0
  /\ UNCHANGED <<tvars, W, eager, qroot, rroot, initialRule, stack, rule, inbox, worker,
                 outbox, resultRequests, results, dispatched, arrived>>

\* The slot merged in iteration i of the loop, as an index from 1.
MergeSlotDescending(i, w) == w - i

MergeSlot(i, w) == i + 1

\* results[i].Merge(*rule), for i = 0 .. world.size() - 2
MasterMerge ==
  /\ mpc = "merge"
  /\ mergeIdx < W
  /\ rule' = Merge(results[MergeSlot(mergeIdx, W)], rule)
  /\ mergeIdx' = mergeIdx + 1
  /\ UNCHANGED <<tvars, W, eager, qroot, rroot, initialRule, mpc, stack, inbox, worker,
                 outbox, resultRequests, results, dispatched, arrived>>

\* The arrays are deleted and Traverse returns.
MasterReturn ==
  /\ mpc = "merge"
  /\ mergeIdx = W
  /\ mpc' = "done"
  /\ UNCHANGED <<tvars, W, eager, qroot, rroot, initialRule, stack, rule, inbox, worker,
                 outbox, resultRequests, results, mergeIdx, dispatched, arrived>>

\* world.recv(0, 0, wrapper) in the worker's constructor
WorkerRecv ==
  /\ mpc # "aborted"
  /\ \E w \in 1..W :
       /\ worker[w].pc = "recv"
       /\ inbox[w] # <<>>
       /\ worker' = [worker EXCEPT ![w] =
                       [pc |-> "traverse", rule |-> Head(inbox[w]).rule,
                        q |-> Head(inbox[w]).q, r |-> Head(inbox[w]).r]]
       /\ inbox' = [inbox EXCEPT ![w] = Tail(@)]
  /\ UNCHANGED <<tvars, W, eager, qroot, rroot, initialRule, mpc, stack, rule, outbox,
                 resultRequests, results, mergeIdx, dispatched, arrived>>

\* Traverse(*wrapper.QueryTree(), *wrapper.ReferenceTree()) on a worker:
\* ChildTraverse runs the single-process traverser.
ChildTraverse ==
  /\ mpc # "aborted"
  /\ \E w \in 1..W :
       /\ worker[w].pc = "traverse"
       /\ worker' = [worker EXCEPT ![w].pc = "send",
                                   ![w].rule = DualTraverse(nodes, buffers, worker[w].rule,
                                                            worker[w].q, worker[w].r)]
  /\ UNCHANGED <<tvars, W, eager, qroot, rroot, initialRule, mpc, stack, rule, inbox,
                 outbox, resultRequests, results, mergeIdx, dispatched, arrived>>

\* Where a worker is once it has handed its result to MPI: the constructor
\* returns, at once when the message is buffered (e) and after the match
\* otherwise.
WorkerAfterSendLoop(e) == "recv"

WorkerAfterSend(e) == IF e THEN "done" ELSE "sending"

\* world.send(0, 0, resultsWrapper) on a worker: it returns at once when MPI
\* buffers the message, and otherwise when the coordinator's receive matches.
WorkerSend ==
  /\ mpc # "aborted"
  /\ \E w \in 1..W :
       /\ worker[w].pc = "send"
       /\ outbox' = [outbox EXCEPT ![w] = Append(@, worker[w].rule)]
       /\ worker' = [worker EXCEPT ![w].pc = WorkerAfterSend(eager)]
  /\ UNCHANGED <<tvars, W, eager, qroot, rroot, initialRule, mpc, stack, rule, inbox,
                 resultRequests, results, mergeIdx, dispatched, arrived>>

\* MPI matches a worker's result message with the receive the coordinator
\* posted for that rank.  When the slot was registered more than once, the
\* first request object was overwritten while its receive was outstanding
\* (undefined behaviour): the message completes the slot's request, or it is
\* taken by the lost request and the slot's request never completes, or the
\* mismatched receive raises an MPI error.
Deliver ==
  /\ mpc # "aborted"
  /\ \E w \in 1..W :
       /\ outbox[w] # <<>>
       /\ resultRequests[w].state = "pending"
       /\ outbox' = [outbox EXCEPT ![w] = Tail(@)]
       /\ worker' = [worker EXCEPT ![w].pc = "done"]
       /\ arrived' = Append(arrived, w)
       /\ \/ /\ results' = [results EXCEPT ![w] = Head(outbox[w])]
             /\ resultRequests' = [resultRequests EXCEPT ![w].state = "complete"]
             /\ mpc' = mpc
          \/ /\ resultRequests[w].posted > 1
             /\ UNCHANGED <<results, resultRequests, mpc>>
          \/ /\ resultRequests[w].posted > 1
             /\ mpc' = "aborted"
             /\ UNCHANGED <<results, resultRequests>>
  /\ UNCHANGED <<tvars, W, eager, qroot, rroot, initialRule, stack, rule, inbox,
                 mergeIdx, dispatched>>

NextDist ==
  \/ MasterRecurse
  \/ MasterSend
  \/ MasterIrecv
  \/ MasterWaitAll
  \/ MasterMerge
  \/ MasterReturn
  \/ WorkerRecv
  \/ ChildTraverse
  \/ WorkerSend
  \/ Deliver

SpecDist == InitDist /\ [][NextDist]_vars

\* No process fails and MPI delivers: as long as some process can take a step
\* or some message can be matched, one of them does.  Every step moves its
\* process forward, so no process can be passed over for ever.
\* The fair runs are taken over two-point trees that lie apart, with every
\* worker count, either Rule and either send mode.
FairInitDist ==
  /\ InitDist
  /\ buffers[nodes[qroot].dataset] = QueryData("apart", 2)
  /\ buffers[nodes[rroot].dataset] = ReferenceData("apart", 2)

FairSpecDist == FairInitDist /\ [][NextDist]_vars /\ WF_vars(NextDist)

------------------------------------------------------------------------------
\* Vocabulary of the properties.

\* The nodes of the tree below (and including) node r.
RECURSIVE TreeNodes(_, _)
TreeNodes(ns, r) ==
  {r} \cup (IF ns[r].left # NULL THEN TreeNodes(ns, ns[r].left) ELSE {})
      \cup (IF ns[r].right # NULL THEN TreeNodes(ns, ns[r].right) ELSE {})

Leaves(ns, r) == { n \in TreeNodes(ns, r) : ns[n].left = NULL /\ ns[n].right = NULL }

\* The number of parent links from node n up to a node without parent.
RECURSIVE LevelOf(_, _)
LevelOf(ns, n) == IF ns[n].parent = NULL THEN 0 ELSE 1 + LevelOf(ns, ns[n].parent)

RangeOf(ns, n) == <<ns[n].begin, ns[n].count>>

IsPermutation(m, n) ==
  /\ Len(m) = n
  /\ \A j \in 0..(n - 1) : \E i \in 1..n : m[i] = j

\* The descendants of a node level by level, left before right.
RECURSIVE ChildrenOfAll(_, _)
ChildrenOfAll(ns, level) ==
  IF level = <<>> THEN <<>>
  ELSE LET n == Head(level)
       IN  (IF ns[n].left # NULL THEN <<ns[n].left>> ELSE <<>>) \o
           (IF ns[n].right # NULL THEN <<ns[n].right>> ELSE <<>>) \o
           ChildrenOfAll(ns, Tail(level))

RECURSIVE LevelsBelow(_, _)
LevelsBelow(ns, level) ==
  LET next == ChildrenOfAll(ns, level)
  IN  IF next = <<>> THEN <<>> ELSE next \o LevelsBelow(ns, next)

BreadthFirst(ns, n) == LevelsBelow(ns, <<n>>)

\* Two subtrees agree at every position on shape and on the fields named.
RECURSIVE SameTree(_, _, _, _)
SameTree(ns, a, b, fields) ==
  /\ \A f \in fields : ns[a][f] = ns[b][f]
  /\ (ns[a].left = NULL) = (ns[b].left = NULL)
  /\ (ns[a].right = NULL) = (ns[b].right = NULL)
  /\ ns[a].left # NULL /\ ns[b].left # NULL => SameTree(ns, ns[a].left, ns[b].left, fields)
  /\ ns[a].right # NULL /\ ns[b].right # NULL => SameTree(ns, ns[a].right, ns[b].right, fields)

\* Every child below r names as its parent the node it hangs from.
ParentsLinked(ns, r) ==
  \A n \in TreeNodes(ns, r) :
    /\ ns[n].left # NULL => ns[ns[n].left].parent = n
    /\ ns[n].right # NULL => ns[ns[n].right].parent = n

\* The ranges of the nodes an archive holds.
PersistedRanges(ar) ==
  LET s == Load(<<>>, <<>>, ar)
  IN  { RangeOf(s.nodes, i) : i \in 1..Len(s.nodes) }

------------------------------------------------------------------------------
\* C2.  After a build every node with children has two, and their ranges
\* partition its range: left.begin = begin, left.end = right.begin and
\* right.end = end.
C2_ChildrenPartitionParent ==
  root # NULL =>
    \A n \in TreeNodes(nodes, root) :
      (nodes[n].left # NULL \/ nodes[n].right # NULL) =>
        /\ nodes[n].left # NULL /\ nodes[n].right # NULL
        /\ nodes[nodes[n].left].begin = nodes[n].begin
        /\ End(nodes, nodes[n].left) = nodes[nodes[n].right].begin
        /\ End(nodes, nodes[n].right) = End(nodes, n)

\* A built tree of depth 3 whose points were reordered by a split.
C2_Witness ==
  /\ pc = "built"
  /\ TreeDepth(nodes, root) >= 3
  /\ buffers[nodes[root].dataset] # Ramp(nodes[root].count)
  /\ \E n \in TreeNodes(nodes, root) : nodes[n].parent # NULL /\ nodes[n].left # NULL

\* C3.  After a build over N points with leaf size k every leaf has count <= k
\* unless the splitter reported failure for its range, and every index of
\* [0, N) lies in exactly one leaf, and no leaf reaches outside [0, N).
C3_LeavesBoundedAndCover ==
  pc = "built" =>
    LET N == Len(buffers[nodes[root].dataset])
        leaves == Leaves(nodes, root)
    IN  /\ \A l \in leaves : nodes[l].count <= maxLeafSize \/ RangeOf(nodes, l) \in failed
        /\ \A l \in leaves : nodes[l].begin >= 0 /\ nodes[l].count >= 1 /\ End(nodes, l) <= N
        /\ \A i \in 0..(N - 1) :
             Cardinality({ l \in leaves : nodes[l].begin <= i /\ i < End(nodes, l) }) = 1

\* A build in which one leaf is oversized because its split failed while
\* another range was split.
C3_Witness ==
  /\ pc = "built"
  /\ nodes[root].left # NULL
  /\ \E l \in Leaves(nodes, root) : nodes[l].count > maxLeafSize /\ RangeOf(nodes, l) \in failed
  /\ \E l \in Leaves(nodes, root) : nodes[l].count <= maxLeafSize

\* C4.  After the constructor that fills both maps, oldFromNew and newFromOld
\* are permutations of [0, N) and inverse to each other.
C4_MapsAreInversePermutations ==
  (pc = "built" /\ call.maps = 2) =>
    LET N == Len(buffers[nodes[root].dataset])
    IN  /\ IsPermutation(oldFromNew, N)
        /\ IsPermutation(newFromOld, N)
        /\ \A i \in 0..(N - 1) : newFromOld[oldFromNew[i + 1] + 1] = i
        /\ \A j \in 0..(N - 1) : oldFromNew[newFromOld[j + 1] + 1] = j

\* A build with both maps whose reorderings compose to a permutation that is
\* not its own inverse.
C4_Witness ==
  /\ pc = "built"
  /\ call.maps = 2
  /\ \E i \in 1..Len(oldFromNew) : oldFromNew[oldFromNew[i] + 1] # i - 1

\* C5.  FindByBeginCount(n.begin, n.count) on the root returns node n, for
\* every node n of the built tree and for both overloads.
C5_FindReturnsTheNode ==
  pc = "found" =>
    \A n \in TreeNodes(nodes, root) :
      (call.queryBegin = nodes[n].begin /\ call.queryCount = nodes[n].count)
        => call.result = n

\* C6.  A copy of a root agrees with the original on begin, count, bound and
\* statistic at every position; all its nodes share one matrix, a clone that
\* is not the original's; parents are the copied nodes; and overwriting the
\* copy's matrix leaves the original's matrix as it was.
CopyOfRootIsDeep(ns, bufs, other, copy) ==
  /\ ns[copy].dataset # NULL
  /\ ns[copy].dataset # ns[other].dataset
  /\ bufs[ns[copy].dataset] = bufs[ns[other].dataset]
  /\ \A n \in TreeNodes(ns, copy) : ns[n].dataset = ns[copy].dataset
  /\ TreeNodes(ns, copy) \cap TreeNodes(ns, other) = {}
  /\ SameTree(ns, other, copy, {"begin", "count", "bound", "stat"})
  /\ ns[copy].parent = NULL
  /\ ParentsLinked(ns, copy)

C6_CopyIsDeep ==
  [][ /\ (pc' = "copied" /\ nodes'[call'.other].parent = NULL)
          => CopyOfRootIsDeep(nodes', buffers', call'.other, call'.copy)
      /\ (pc' = "mutated" /\ nodes[call.other].parent = NULL)
          => /\ buffers'[nodes[call.other].dataset] = buffers[nodes[call.other].dataset]
             /\ buffers'[nodes[call.copy].dataset] # buffers[nodes[call.copy].dataset]
    ]_vars

\* The copy of a root of depth 3, after a point of the copy was overwritten.
C6_Witness ==
  /\ pc = "mutated"
  /\ nodes[call.other].parent = NULL
  /\ TreeDepth(nodes, call.copy) >= 3
  /\ buffers[nodes[call.copy].dataset] # buffers[nodes[call.other].dataset]

\* C7.  Saving the whole tree through Serialize(ar, version) and loading the
\* archive gives a tree of the same shape with the same begin, count, bound,
\* statistic, parentDistance and furthestDescendantDistance at every node,
\* whose root has no parent and whose other nodes name as parent the loaded
\* node above them.
C7_SaveLoadRoundTrip ==
  (pc = "loaded" /\ call.node = root /\ call.maxDepth = 0) =>
    /\ SameTree(nodes, root, call.loaded,
                {"begin", "count", "bound", "stat", "parentDistance",
                 "furthestDescendantDistance"})
    /\ TreeNodes(nodes, call.loaded) \cap TreeNodes(nodes, root) = {}
    /\ nodes[call.loaded].parent = NULL
    /\ ParentsLinked(nodes, call.loaded)

\* A tree of depth 3 with a child at non-zero parent distance, saved whole
\* and loaded.
C7_Witness ==
  /\ pc = "loaded"
  /\ call.node = root
  /\ call.maxDepth = 0
  /\ TreeDepth(nodes, call.loaded) >= 3
  /\ \E n \in TreeNodes(nodes, call.loaded) :
       nodes[n].parentDistance # 0 /\ nodes[n].parentDistance # nodes[n].furthestDescendantDistance

\* C8 as stated.  A save from the root with budget d >= 1 persists exactly the
\* nodes at most d levels below the root.
C8_PersistsLevelsUpToBudget ==
  (pc = "saved" /\ call.node = root /\ call.maxDepth >= 1) =>
    PersistedRanges(archive) =
      { RangeOf(nodes, n) : n \in { m \in TreeNodes(nodes, root) : LevelOf(nodes, m) <= call.maxDepth } }

\* C8 as amended.  A save from the root with budget d >= 1 persists exactly the
\* nodes fewer than d levels below the root: budget 1 persists the root alone,
\* budget 2 the root and its two children.
C8_PersistsLevelsBelowBudget ==
  (pc = "saved" /\ call.node = root /\ call.maxDepth >= 1) =>
    PersistedRanges(archive) =
      { RangeOf(nodes, n) : n \in { m \in TreeNodes(nodes, root) : LevelOf(nodes, m) < call.maxDepth } }

\* The 7-node tree of the points 1..8 saved with budget 2: the archive holds
\* the root and its two children.
C8_Witness ==
  /\ pc = "saved"
  /\ call.node = root
  /\ call.maxDepth = 2
  /\ nodes[root].count = 8
  /\ TreeSize(nodes, root) = 7
  /\ PersistedRanges(archive) = {<<0, 8>>, <<0, 4>>, <<4, 4>>}

\* C9.  A save with any budget leaves every node as it was, and the
\* parentDistance written for a node is the node's own.
C9_SaveLeavesTreeUnchanged ==
  [][ pc' = "saved" =>
        /\ nodes' = nodes
        /\ LET s == Load(<<>>, <<>>, archive')
           IN  \A i \in 1..Len(s.nodes) :
                 \E n \in TreeNodes(nodes, call'.node) :
                   /\ RangeOf(nodes, n) = RangeOf(s.nodes, i)
                   /\ nodes[n].parentDistance = s.nodes[i].parentDistance
    ]_vars

\* A save that hid the children of a node whose own parentDistance is not 0.
C9_Witness ==
  /\ pc = "saved"
  /\ call.maxDepth = 2
  /\ call.node = root
  /\ \E n \in TreeNodes(nodes, root) :
       /\ LevelOf(nodes, n) = 1
       /\ nodes[n].left # NULL
       /\ nodes[n].parentDistance # 0
       /\ RangeOf(nodes, nodes[n].left) \notin PersistedRanges(archive)

\* C10.  DescendantNode(i) throws exactly when i >= NumDescendantNodes(), and
\* otherwise returns the i-th descendant in breadth-first order, left before
\* right; on the 7-node tree index 5 succeeds and index 6 throws.
C10_DescendantNodeByIndex ==
  pc = "descended" =>
    LET order == BreadthFirst(nodes, call.node)
    IN  /\ (call.result = InvalidArgument) = (call.index >= NumDescendantNodes(nodes, call.node))
        /\ Len(order) = NumDescendantNodes(nodes, call.node)
        /\ call.index < Len(order) => call.result = order[call.index + 1]
        /\ (call.node = root /\ TreeSize(nodes, root) = 7) =>
             /\ call.index = 5 => call.result \in TreeNodes(nodes, root) \ {root}
             /\ call.index = 6 => call.result = InvalidArgument

\* DescendantNode(6) on the root of the 7-node tree of the points 1..8.
C10_Witness ==
  /\ pc = "descended"
  /\ call.node = root
  /\ nodes[root].count = 8
  /\ TreeSize(nodes, root) = 7
  /\ call.index = 6
  /\ call.result = InvalidArgument

\* C1: for every worker count W >= 1 the distributed traversal ends without an
\* MPI error, and once Traverse has returned on the coordinator its Rule equals
\* the Rule a single-process dual-tree traversal of (queryRoot, referenceRoot)
\* produces from the same initial Rule.
SingleProcessResult == DualTraverse(nodes, buffers, initialRule, qroot, rroot)

C1_DistributedEqualsSingleProcess ==
  /\ mpc # "aborted"
  /\ mpc = "done" => rule = SingleProcessResult

\* The branches taken from the root to node n, first branch first: 0 for a
\* left child, 1 for a right child.
RECURSIVE PathTo(_, _)
PathTo(ns, n) ==
  IF ns[n].parent = NULL THEN <<>>
  ELSE Append(PathTo(ns, ns[n].parent), IF ns[ns[n].parent].right = n THEN 1 ELSE 0)

\* The integer whose 2-bit groups are the branch codes of the two paths, the
\* first branch in the most significant group, the query side the high bit.
RECURSIVE BranchCode(_, _)
BranchCode(qpath, rpath) ==
  IF qpath = <<>> THEN 0
  ELSE 4 * BranchCode(SubSeq(qpath, 1, Len(qpath) - 1), SubSeq(rpath, 1, Len(rpath) - 1))
       + 2 * qpath[Len(qpath)] + rpath[Len(rpath)]

\* A pair reached through four-way steps only: both sides descended at every
\* step, so both nodes are equally deep.
ReachedByDualSteps(ns, q, r) == Len(PathTo(ns, q)) = Len(PathTo(ns, r))

C11_DeepWitness ==
  \E i \in 1..Len(dispatched) :
    /\ Len(PathTo(nodes, dispatched[i].q)) = 2
    /\ Len(PathTo(nodes, dispatched[i].r)) = 2

\* The Rule the coordinator holds after its bounded local recursion alone.
RECURSIVE LocalPhase(_, _, _, _, _, _, _)
RECURSIVE LocalPhaseAll(_, _, _, _, _, _)
LocalPhaseAll(ns, bufs, r0, pairs, level, w) ==
  IF pairs = <<>> THEN r0
  ELSE LocalPhaseAll(ns, bufs,
                     LocalPhase(ns, bufs, r0, Head(pairs)[1], Head(pairs)[2], level, w),
                     Tail(pairs), level, w)

LocalPhase(ns, bufs, r0, q, r, level, w) ==
  IF ~RecurseLocally(level, w) THEN r0
  ELSE IF Score(ns, r0, q, r) = DBL_MAX THEN r0
  ELSE LocalPhaseAll(ns, bufs, BaseCases(ns, bufs, r0, q, r), ChildPairs(ns, q, r),
                     level + 1, w)

\* The result rank w computes from the task it was sent; an empty table when
\* it was sent none.
TaskResult(w) ==
  LET sent == { i \in 1..Len(dispatched) : dispatched[i].target = w }
  IN  IF sent = {} THEN NoResults
      ELSE LET d == dispatched[SetMin(sent)]
           IN  DualTraverse(nodes, buffers, d.rule, d.q, d.r)

\* The workers' results folded into r0 in ascending rank order, from rank w on.
RECURSIVE MergeAscending(_, _)
MergeAscending(w, r0) ==
  IF w > W THEN r0 ELSE MergeAscending(w + 1, Merge(TaskResult(w), r0))

NoSlotRegisteredTwice == \A w \in 1..W : resultRequests[w].posted <= 1

\* C12: when Traverse has returned, the coordinator's Rule is the fold of the
\* workers' results in ascending rank order (rank 1 first) over the Rule of its
\* local phase, a value fixed by the inputs and not by the order in which the
\* result messages arrived.
C12_MergeInAscendingRankOrder ==
  mpc = "done" =>
    rule = MergeAscending(1, LocalPhase(nodes, buffers, initialRule, qroot, rroot, 0, W))

\* Results arrived out of rank order, and two ranks tie on a query point with
\* different neighbours, so the merge order shows in the Rule.
C12_Witness ==
  /\ mpc = "done"
  /\ NoSlotRegisteredTwice
  /\ \E i \in 1..Len(arrived), j \in 1..Len(arrived) : i < j /\ arrived[i] > arrived[j]
  /\ \E a \in 1..W, b \in 1..W, p \in 1..Len(rule.distances) :
       /\ a < b
       /\ TaskResult(a) # NoResults
       /\ TaskResult(b) # NoResults
       /\ TaskResult(a).distances[p] = TaskResult(b).distances[p]
       /\ TaskResult(a).distances[p] < initialRule.distances[p]
       /\ TaskResult(a).neighbors[p] # TaskResult(b).neighbors[p]

\* The steps of a worker, in the order of its constructor.
WorkerSteps ==
  { <<"recv", "traverse">>, <<"traverse", "send">>, <<"send", "sending">>,
    <<"send", "done">>, <<"sending", "done">> }

Occurrences(s, x) == Cardinality({ i \in 1..Len(s) : s[i] = x })

\* C14: destroying a root frees every descendant node exactly once and the
\* dataset its tree shares exactly once, and no matrix of another tree;
\* destroying a node that has a parent frees its descendants exactly once and
\* no dataset.  For built, copied and loaded trees alike.
C14_DestructionFreesOnce ==
  pc = "destroyed" =>
    LET n == call.node
        below == TreeNodes(nodes, n) \ {n}
    IN  /\ \A m \in 1..Len(nodes) :
             Occurrences(call.freedNodes, m) = IF m \in below THEN 1 ELSE 0
        /\ IF nodes[n].parent = NULL /\ nodes[n].dataset # NULL
           THEN /\ call.freedBuffers = <<nodes[n].dataset>>
                /\ \A m \in 1..Len(nodes) :
                     nodes[m].dataset = nodes[n].dataset <=> m \in TreeNodes(nodes, n)
           ELSE call.freedBuffers = <<>>

\* A loaded root with children was destroyed.
C14_Witness ==
  /\ pc = "destroyed"
  /\ call.from = "loaded"
  /\ nodes[call.node].parent = NULL
  /\ call.node > Len(nodes) \div 2
  /\ Len(call.freedNodes) >= 2
  /\ Len(call.freedBuffers) = 1

C14_WitnessCopy ==
  /\ pc = "destroyed"
  /\ call.from = "copied"
  /\ call.node # root
  /\ Len(call.freedNodes) >= 2
  /\ Len(call.freedBuffers) = 1

C14_WitnessInner ==
  /\ pc = "destroyed"
  /\ nodes[call.node].parent # NULL
  /\ Len(call.freedNodes) >= 2

\* The first level at which MasterTraverse dispatches instead of recursing.
RECURSIVE DispatchDepthFrom(_, _)
DispatchDepthFrom(level, w) ==
  IF RecurseLocally(level, w) THEN DispatchDepthFrom(level + 1, w) ELSE level

DispatchDepth(w) == DispatchDepthFrom(0, w)

\* C15: the dispatch depth d of the coordinator satisfies 4^d <= W, and every
\* target rank computed for a dispatched task lies in 1..W (so every index
\* target - 1 into the request and result arrays lies in 0..W-1).
C15_TargetsWithinWorkers ==
  /\ Pow4(DispatchDepth(W)) <= W
  /\ \A i \in 1..Len(dispatched) : dispatched[i].target \in 1..W

\* The number of tasks the coordinator sent, or tried to send, to rank w.
TasksFor(w) == Cardinality({ i \in 1..Len(dispatched) : dispatched[i].target = w })

AllDispatchedByDualSteps ==
  \A i \in 1..Len(dispatched) : ReachedByDualSteps(nodes, dispatched[i].q, dispatched[i].r)

\* The pairs of the two trees that lie d four-way steps below the roots.
DualPairsAt(d) ==
  { <<q, r>> \in TreeNodes(nodes, qroot) \X TreeNodes(nodes, rroot) :
      Len(PathTo(nodes, q)) = d /\ Len(PathTo(nodes, r)) = d }

\* C16: when every dispatched pair was reached through four-way steps only,
\* distinct dispatched pairs have distinct target ranks, no worker is sent more
\* than one task and no receive slot is registered twice; and any two distinct
\* pairs the same number of four-way steps below the roots have distinct
\* targets.
C16_DualStepsGiveDistinctTargets ==
  /\ AllDispatchedByDualSteps =>
       /\ \A i \in 1..Len(dispatched), j \in 1..Len(dispatched) :
            i # j => dispatched[i].target # dispatched[j].target
       /\ \A w \in 1..W : TasksFor(w) <= 1 /\ Len(inbox[w]) <= 1
       /\ NoSlotRegisteredTwice
  /\ \A d \in 1..MaxPts : \A a \in DualPairsAt(d), b \in DualPairsAt(d) :
       a # b => GetTarget(nodes, a[1], a[2]) # GetTarget(nodes, b[1], b[2])

\* Four workers, four pairs dispatched after one four-way step, four slots
\* registered once each.
C16_Witness ==
  /\ W = 4
  /\ Len(dispatched) = 4
  /\ AllDispatchedByDualSteps
  /\ \A w \in 1..W : resultRequests[w].posted = 1

\* The coordinator takes a step of MasterTraverse on the pair on top of its
\* stack.
MasterTraverseStep ==
  /\ mpc = "traverse"
  /\ stack # <<>>
  /\ stack' # stack \/ dispatched' # dispatched

\* C17 (as stated): a pair whose score is the prune sentinel, at any level from
\* 0 to the dispatch depth inclusive, is never dispatched to a worker.
C17_PrunedPairNeverDispatched ==
  \A i \in 1..Len(dispatched) :
    Score(nodes, dispatched[i].rule, dispatched[i].q, dispatched[i].r) # DBL_MAX

\* C17 (amended): the coordinator scores a pair at the levels below the
\* dispatch depth only.  There a sentinel score stops the branch: no base case
\* runs, no child combination is visited, nothing is dispatched.  A pair at the
\* dispatch depth is dispatched without being scored, whatever its score.
C17_PruneStopsLocalBranch ==
  [][MasterTraverseStep =>
       LET f == Head(stack)
       IN  IF RecurseLocally(f.level, W)
           THEN Score(nodes, rule, f.q, f.r) = DBL_MAX =>
                  /\ rule' = rule
                  /\ stack' = Tail(stack)
                  /\ dispatched' = dispatched
                  /\ inbox' = inbox
           ELSE /\ Len(dispatched') = Len(dispatched) + 1
                /\ dispatched'[Len(dispatched')].q = f.q
                /\ dispatched'[Len(dispatched')].r = f.r
                /\ rule' = rule
  ]_vars

\* Two internal roots were pruned at level 0 with several workers: the run
\* ended with nothing dispatched.
C17_Witness ==
  /\ mpc = "done"
  /\ W >= 2
  /\ ~IsLeaf(nodes, qroot)
  /\ ~IsLeaf(nodes, rroot)
  /\ Score(nodes, initialRule, qroot, rroot) = DBL_MAX
  /\ dispatched = <<>>
  /\ rule = initialRule

\* C18: a pair reached through a step in which only one side descended (the
\* other node being a leaf above the dispatch depth) is never dispatched to a
\* worker.
C18_OneSidedPairsNeverDispatched ==
  \A i \in 1..Len(dispatched) :
    ReachedByDualSteps(nodes, dispatched[i].q, dispatched[i].r)

Arrived(w) == \E i \in 1..Len(arrived) : arrived[i] = w

SendTarget == dispatched[Len(dispatched)].target

\* C20 (as stated): dispatching never blocks the coordinator; inside a dispatch
\* it can always go on, whether or not the target has taken the message.
C20_DispatchNeverBlocks ==
  mpc = "send" => ENABLED MasterIrecv

\* C20 (amended): the task send is a blocking send.  The coordinator goes on
\* from it exactly when MPI has buffered the message or the target worker has
\* received it; the registration of the result receive and the bounded
\* recursion never wait for a worker.
C20_SendWaitsForReceiptOnly ==
  /\ mpc = "send" =>
       (ENABLED MasterIrecv <=> (eager \/ inbox[SendTarget] = <<>>))
  /\ (mpc = "traverse" /\ stack # <<>>) => ENABLED (MasterRecurse \/ MasterSend)

\* The coordinator waits inside the send of its second task, which rank 2 has
\* not taken, while every pair was reached by four-way steps.
C20_Witness ==
  /\ mpc = "send"
  /\ ~eager
  /\ W = 4
  /\ Len(dispatched) = 2
  /\ AllDispatchedByDualSteps
  /\ inbox[SendTarget] # <<>>
  /\ ~ENABLED MasterIrecv

\* The query range [queryBegin, queryBegin + queryCount) lies within the range
\* of node n.
NestedIn(ns, n, queryBegin, queryCount) ==
  /\ ns[n].begin <= queryBegin
  /\ queryBegin + queryCount <= ns[n].begin + ns[n].count

\* The node at which a lookup with assertions enabled stops on a failed
\* assertion, NULL when none fails.
RECURSIVE AssertSite(_, _, _, _, _)
AssertSite(ns, id, queryBegin, queryCount, const) ==
  LET here == IF const THEN FindByBeginCountConst(ns, id, queryBegin, queryCount, TRUE)
              ELSE FindByBeginCount(ns, id, queryBegin, queryCount, TRUE)
      l == ns[id].left
      r == ns[id].right
  IN  IF here # AssertFailed THEN NULL
      ELSE IF l # NULL /\
              (IF const THEN FindByBeginCountConst(ns, l, queryBegin, queryCount, TRUE)
               ELSE FindByBeginCount(ns, l, queryBegin, queryCount, TRUE)) = AssertFailed /\
              (IF const THEN queryBegin < ns[r].begin ELSE queryBegin < End(ns, l)) /\
              (IF const THEN queryBegin >= ns[id].begin /\ queryCount <= ns[id].count
               ELSE ns[id].begin >= queryBegin /\ ns[id].count <= queryCount)
      THEN AssertSite(ns, l, queryBegin, queryCount, const)
      ELSE IF r # NULL /\
              (IF const THEN FindByBeginCountConst(ns, r, queryBegin, queryCount, TRUE)
               ELSE FindByBeginCount(ns, r, queryBegin, queryCount, TRUE)) = AssertFailed /\
              (IF const THEN queryBegin >= ns[r].begin ELSE queryBegin >= End(ns, l)) /\
              (IF const THEN queryBegin >= ns[id].begin /\ queryCount <= ns[id].count
               ELSE ns[id].begin >= queryBegin /\ ns[id].count <= queryCount)
      THEN AssertSite(ns, r, queryBegin, queryCount, const)
      ELSE id

\* C21: with assertions enabled, looking up from the root the (begin, count) of
\* a node of the tree trips no assertion, in either overload; and when an
\* assertion fires, the query range is not nested within the range of the
\* node at which it fired.
C21_LookupOfExistingNodeNeverAsserts ==
  (pc = "found" /\ call.asserts) =>
    /\ (\E n \in TreeNodes(nodes, root) :
          call.queryBegin = nodes[n].begin /\ call.queryCount = nodes[n].count)
         => call.result # AssertFailed
    /\ call.result = AssertFailed =>
         ~NestedIn(nodes, AssertSite(nodes, root, call.queryBegin, call.queryCount,
                                     call.const),
                   call.queryBegin, call.queryCount)

\* C22: under fair delivery and with no process failing the run terminates:
\* every worker receives a task, sends its result and stops, and the
\* coordinator finishes the merge and returns.
C22_RunTerminates ==
  <>(/\ mpc = "done"
     /\ \A w \in 1..W : worker[w].pc = "done")

====
